---- MODULE Spec2Model ----
(***************************************************************************)
(* A model of the Temporal Test262 runner (runTest262 and                  *)
(* updateExpectedFailureFile).  Text files are sequences of one-character  *)
(* strings, so that splitting into lines and joining them again is         *)
(* computed the way String.prototype.split and Array.prototype.join do it. *)
(***************************************************************************)
EXTENDS Integers, Sequences, FiniteSets, TLC

\* ------------------------------------------------------------------ bounds
MaxTests == 3
MaxCeiling == 2
MaxLen == 4
MaxOptLen == 3

\* ------------------------------------------------------- program constants
DefaultTimeoutMsecs == 2000
SlowTestNs == 100000000
NsPerMsec == 1000000

\* ------------------------------------------------------------------- text
CR == "\r"
LF == "\n"
SP == " "
HASH == "#"

\* JavaScript values that may be undefined carry a type tag.
Undefined == [t |-> "undefined", v |-> 0]
Num(n) == [t |-> "number", v |-> n]
Str(s) == [t |-> "string", v |-> s]
NaN == [t |-> "NaN", v |-> 0]
NoLists == [t |-> "undefined", v |-> <<>>]
Arr(s) == [t |-> "array", v |-> s]

Range(s) == {s[n] : n \in 1..Len(s)}

\* One match of /\r?\n/ ends a line: the \n, and the \r right before it.
StripCR(l) ==
  IF Len(l) > 0 /\ l[Len(l)] = CR THEN SubSeq(l, 1, Len(l) - 1) ELSE l

RECURSIVE SplitFrom(_, _, _)
SplitFrom(text, cur, acc) ==
  IF text = <<>> THEN Append(acc, cur)
  ELSE IF Head(text) = LF
       THEN SplitFrom(Tail(text), <<>>, Append(acc, StripCR(cur)))
       ELSE SplitFrom(Tail(text), Append(cur, Head(text)), acc)

\* text.split(/\r?\n/g)
SplitLines(text) == SplitFrom(text, <<>>, <<>>)

RECURSIVE JoinLines(_)
\* lines.join('\n')
JoinLines(lines) ==
  IF lines = <<>> THEN <<>>
  ELSE IF Len(lines) = 1 THEN lines[1]
  ELSE lines[1] \o <<LF>> \o JoinLines(Tail(lines))

\* new Set(text.split(/\r?\n/g).filter((line) => line && line[0] !== '#'))
LoadExpectedFailures(text) ==
  {l \in Range(SplitLines(text)) : l # <<>> /\ l[1] # HASH}

\* linesOnDisk.filter(l => !expectedFailuresInFile.has(l))
KeepLines(lines, expectedFailuresInFile) ==
  SelectSeq(lines, LAMBDA l : l \notin expectedFailuresInFile)

\* A slip: the file is written anew from its entries, without the comment
\* lines and the blank lines.
RegenerateExpectedFailureFile(text, expectedFailuresInFile) ==
  JoinLines(SelectSeq(SplitLines(text),
                      LAMBDA l : /\ l # <<>>
                                 /\ l[1] # HASH
                                 /\ l \notin expectedFailuresInFile))

\* The text updateExpectedFailureFile writes to fileName.
UpdateExpectedFailureFile(text, expectedFailuresInFile) ==
  JoinLines(KeepLines(SplitLines(text), expectedFailuresInFile))

\* ---------------------------------------------------------- configuration
\* The files named by the expectedFailureFiles option, in the option's order.
expectedFailureFiles == <<"f1", "f2">>

FileNames == Range(expectedFailureFiles)

\* "#x\nb\n\nc\n": a comment, a blank line, a trailing newline
TextA == <<HASH, "x", LF, "b", LF, LF, "c", LF>>
\* "a\r\nc\r\n": CRLF line endings
TextB == <<"a", CR, LF, "c", CR, LF>>
\* " b\na\na": an indented entry, a repeated entry, no trailing newline
TextC == <<SP, "b", LF, "a", LF, "a">>

\* The contents the two files may have when a run starts; with the last pair
\* two of the tests are named by no file.
RunDisks ==
  {[f \in FileNames |-> IF f = "f1" THEN p[1] ELSE p[2]] :
     p \in {<<TextA, TextA>>, <<TextA, TextB>>, <<TextC, TextB>>, <<TextC, TextC>>}}

TestNames == <<"a", "b", "c", "d", "e", "f">>

\* path.relative(testSubdirectory, testFile) of the n-th selected test
TestRelPath(n) == <<TestNames[n]>>

CeilingOptions == {Undefined} \cup {Num(n) : n \in 0..MaxCeiling}

TimeoutOptions == {Undefined, Num(100)}

TimeoutAlphabet == {"0", "1", "2", "a", "x", "-", ".", SP}

RECURSIVE OptionStringsOfLen(_)
OptionStringsOfLen(n) ==
  IF n = 0 THEN {<<>>}
  ELSE {Append(t, c) : t \in OptionStringsOfLen(n - 1), c \in TimeoutAlphabet}

\* The values the timeoutMsecs option is given: nothing, a number, a string.
TimeoutInputs ==
  {Undefined}
    \cup {Num(n) : n \in {0, 12, 100, 3000}}
    \cup {Str(t) : t \in UNION {OptionStringsOfLen(n) : n \in 0..MaxOptLen}}

\* What a test file's body does when it is run.
Bodies ==
  {[kind |-> "pass", error |-> "none", dur |-> 0],
   [kind |-> "pass", error |-> "none", dur |-> 150],
   [kind |-> "throw", error |-> "Test262Error", dur |-> 0],
   [kind |-> "throw", error |-> "null", dur |-> 0],
   [kind |-> "loop", error |-> "none", dur |-> 0],
   [kind |-> "syntax", error |-> "SyntaxError", dur |-> 0]}

NoBody == [kind |-> "none", error |-> "none", dur |-> 0]

\* What a test file's front matter holds.
Frontmatters ==
  {[yaml |-> "absent", flags |-> {}, includes |-> <<>>],
   [yaml |-> "invalid", flags |-> {}, includes |-> <<>>],
   [yaml |-> "ok", flags |-> {}, includes |-> <<>>],
   [yaml |-> "ok", flags |-> {"raw"}, includes |-> <<>>],
   [yaml |-> "ok", flags |-> {}, includes |-> <<"h.js", "g.js">>],
   [yaml |-> "ok", flags |-> {"raw"}, includes |-> <<"h.js">>]}

\* No front matter has been read.
NoFrontmatter == [yaml |-> "none", flags |-> {}, includes |-> <<>>]

Alphabet == {"a", SP, HASH, CR, LF}

RECURSIVE TextsOfLen(_)
TextsOfLen(n) ==
  IF n = 0 THEN {<<>>}
  ELSE {Append(t, c) : t \in TextsOfLen(n - 1), c \in Alphabet}

\* Every file content of at most MaxLen characters.
Texts == UNION {TextsOfLen(n) : n \in 0..MaxLen}

\* The sets of test names a file is rewritten without.
RemoveSets == SUBSET {<<"a">>, <<"a", "a">>}

\* What reading, compiling and running a harness file does the first time.
HelperFiles == {"ok", "unreadable", "syntax", "throws"}

\* The names a test may give in its includes, and the two base helpers.
HelperNames == {"assert.js", "sta.js", "h.js", "g.js"}

VARIABLES
  total, maxFailures, updateExpectedFailureFiles, timeoutMsecs,
  disk, origDisk, expectedFailureLists, helpersCache,
  failures, unexpectedPasses, longTests,
  passCount, expectedFailCount, unexpectedPassCount, skippedCount,
  pc, testIdx, testContext, includes, body, elapsed, relevantLists,
  hasFailures, ret, rk, exception, outcomes, executed, timeoutOption,
  frontmatter, helperReads

config == <<total, maxFailures, updateExpectedFailureFiles, timeoutMsecs,
            origDisk, expectedFailureLists, timeoutOption>>
counters == <<passCount, expectedFailCount, unexpectedPassCount, skippedCount,
              failures, unexpectedPasses>>
current == <<testContext, includes, body, elapsed, relevantLists, frontmatter>>
report == <<hasFailures, ret, rk>>
helpers == <<helpersCache, helperReads>>

vars == <<config, counters, current, report, disk, helpers, longTests,
          pc, testIdx, exception, outcomes, executed>>

\* The digits of the radixes parseInt meets here (letters in lower case).
Digits == <<"0", "1", "2", "3", "4", "5", "6", "7", "8", "9",
            "a", "b", "c", "d", "e", "f">>

IsDigit(c, radix) == \E n \in 1..radix : Digits[n] = c

DigitValue(c) == (CHOOSE n \in 1..16 : Digits[n] = c) - 1

RECURSIVE ToDigits(_)
\* String(n) of an integer n >= 0
ToDigits(n) ==
  IF n < 10 THEN <<Digits[n + 1]>>
  ELSE Append(ToDigits(n \div 10), Digits[(n % 10) + 1])

\* ToStr of the argument of parseInt
ToStr(x) ==
  IF x.t = "undefined" THEN <<"u", "n", "d", "e", "f", "i", "n", "e", "d">>
  ELSE IF x.t = "number"
       THEN (IF x.v < 0 THEN <<"-">> \o ToDigits(-x.v) ELSE ToDigits(x.v))
       ELSE x.v

RECURSIVE SkipWhiteSpace(_)
SkipWhiteSpace(s) ==
  IF s # <<>> /\ Head(s) \in {SP, CR, LF} THEN SkipWhiteSpace(Tail(s)) ELSE s

RECURSIVE ParseDigits(_, _, _, _)
\* The value of the longest run of digits s starts with; NaN when it is empty.
ParseDigits(s, radix, acc, seen) ==
  IF s # <<>> /\ IsDigit(Head(s), radix)
  THEN ParseDigits(Tail(s), radix, acc * radix + DigitValue(Head(s)), TRUE)
  ELSE IF seen THEN Num(acc) ELSE NaN

\* parseInt(string) without a radix: leading white space, a sign, 0x for
\* radix 16, then digits up to the first character that is none.
ParseInt(string) ==
  LET t == SkipWhiteSpace(string)
      signed == t # <<>> /\ Head(t) \in {"-", "+"}
      u == IF signed THEN Tail(t) ELSE t
      hex == Len(u) >= 2 /\ u[1] = "0" /\ u[2] = "x"
      n == IF hex THEN ParseDigits(SubSeq(u, 3, Len(u)), 16, 0, FALSE)
           ELSE ParseDigits(u, 10, 0, FALSE)
  IN IF n.t = "number" /\ signed /\ Head(t) = "-" THEN Num(-n.v) ELSE n

\* A slip: NaN is left to become no time at all.
ResolveTimeoutNoDefault(opt) ==
  LET n == ParseInt(ToStr(opt)) IN IF n.t = "NaN" THEN 0 ELSE n.v

\* timeoutMsecs = parseInt(timeoutMsecs); NaN becomes 2000
ResolveTimeout(opt) ==
  LET n == ParseInt(ToStr(opt)) IN
  IF n.t = "NaN" THEN DefaultTimeoutMsecs ELSE n.v

\* A slip: whatever is defined counts as true, the number 0 too.
TruthyWhenDefined(x) == x.t # "undefined"

\* JavaScript truthiness of a number-or-undefined and of an array-or-undefined
Truthy(x) == x.t = "array" \/ (x.t = "number" /\ x.v # 0)

\* The state of the run before the first test.
RunStart ==
  /\ helpersCache = {}
  /\ helperReads = [n \in HelperNames |-> 0]
  /\ failures = <<>>
  /\ longTests = <<>>
  /\ passCount = 0
  /\ expectedFailCount = 0
  /\ unexpectedPassCount = 0
  /\ skippedCount = 0
  /\ testIdx = 1
  /\ testContext = <<>>
  /\ includes = <<>>
  /\ body = NoBody
  /\ elapsed = 0
  /\ relevantLists = NoLists
  /\ frontmatter = NoFrontmatter
  /\ hasFailures = FALSE
  /\ ret = "none"
  /\ rk = 1
  /\ exception = "none"
  /\ outcomes = <<>>
  /\ executed = {}

Init ==
  /\ total \in 1..MaxTests
  /\ maxFailures \in CeilingOptions
  /\ updateExpectedFailureFiles \in BOOLEAN
  /\ \E opt \in TimeoutOptions :
       /\ timeoutOption = opt
       /\ timeoutMsecs = ResolveTimeout(opt)
  /\ disk \in RunDisks
  /\ origDisk = disk
  /\ expectedFailureLists = [f \in FileNames |-> LoadExpectedFailures(disk[f])]
  /\ unexpectedPasses = <<>>
  /\ pc = "loop"
  /\ RunStart

\* The expected-failure files alone: updateExpectedFailureFile is called with
\* any text on disk and any set of test names.
FileInit ==
  /\ total = 1
  /\ maxFailures = Undefined
  /\ updateExpectedFailureFiles = TRUE
  /\ timeoutOption = Undefined
  /\ timeoutMsecs = ResolveTimeout(timeoutOption)
  /\ \E text \in Texts : disk = [f \in FileNames |-> IF f = "f1" THEN text ELSE <<>>]
  /\ origDisk = disk
  /\ expectedFailureLists = [f \in FileNames |-> LoadExpectedFailures(disk[f])]
  /\ \E names \in RemoveSets : unexpectedPasses = <<[list |-> "f1", tests |-> names]>>
  /\ pc = "call"
  /\ RunStart

\* ------------------------------------------------------------ the test loop
testRelPath == TestRelPath(testIdx)

\* A slip: the empty array is returned as it is, and an array is truthy.
RelevantListsNeverUndefined(testFile) ==
  Arr(SelectSeq(expectedFailureFiles,
                LAMBDA f : testFile \in expectedFailureLists[f]))

\* A slip: only the first file that names the test is returned.
RelevantListsFirstOnly(testFile) ==
  LET r == SelectSeq(expectedFailureFiles,
                     LAMBDA f : testFile \in expectedFailureLists[f])
  IN IF Len(r) > 0 THEN Arr(<<r[1]>>) ELSE NoLists

\* A slip: when some file names the test, all the files are returned.
RelevantListsAllFiles(testFile) ==
  IF \E f \in FileNames : testFile \in expectedFailureLists[f]
  THEN Arr(expectedFailureFiles)
  ELSE NoLists

\* getRelevantExpectedFailureLists(testFile)
GetRelevantExpectedFailureLists(testFile) ==
  LET r == SelectSeq(expectedFailureFiles,
                     LAMBDA f : testFile \in expectedFailureLists[f])
  IN IF Len(r) > 0 THEN Arr(r) ELSE NoLists

\* A slip: the comparison is strict, so one failure too many is let through.
CeilingReachedLate == Truthy(maxFailures) /\ Len(failures) > maxFailures.v

\* A slip: the ceiling is never looked at.
CeilingNeverReached == FALSE

\* A slip: every test that did not simply pass counts towards the ceiling.
CeilingCountsEveryOutcome ==
  /\ Truthy(maxFailures)
  /\ Len(failures) + expectedFailCount + unexpectedPassCount >= maxFailures.v

\* maxFailures && failures.length >= maxFailures
CeilingReached == Truthy(maxFailures) /\ Len(failures) >= maxFailures.v

\* A slip: the context of the test before is used again.
ReusedContext == testContext

\* const testContext = {}; vm.createContext(testContext)
NewContext == <<>>

\* A record of what the loop did with the current test (the run keeps only
\* counters and lists; this log is kept beside them to state properties).
Outcome(result, error, class) ==
  [test |-> testIdx, result |-> result, error |-> error, class |-> class]

\* A slip: the error is logged and the loop carries on.
AbortLogged(e) ==
  /\ pc' = "loop"
  /\ exception' = e

Abort(e) ==
  /\ pc' = "aborted"
  /\ exception' = e

\* Skip test if over the max-failure limit
Skip ==
  /\ pc = "loop"
  /\ testIdx <= total
  /\ CeilingReached
  /\ skippedCount' = skippedCount + 1
  /\ outcomes' = Append(outcomes, Outcome("none", "none", "Skipped"))
  /\ testIdx' = testIdx + 1
  /\ UNCHANGED <<config, current, report, disk, helpers, longTests, pc,
                 exception, executed, passCount, expectedFailCount,
                 unexpectedPassCount, failures, unexpectedPasses>>

\* A slip: the base helpers are put after the includes of the test.
IncludesBaseLast(fm) ==
  IF "raw" \in fm.flags THEN fm.includes
  ELSE fm.includes \o <<"assert.js", "sta.js">>

\* if (!flags.includes('raw')) includes.unshift('assert.js', 'sta.js')
EffectiveIncludes(fm) ==
  IF "raw" \in fm.flags THEN fm.includes
  ELSE <<"assert.js", "sta.js">> \o fm.includes

\* Fresh context, polyfill, front matter, effective include list.
SetUp ==
  /\ pc = "loop"
  /\ testIdx <= total
  /\ ~CeilingReached
  /\ executed' = executed \cup {testIdx}
  /\ \E polyfillThrows \in BOOLEAN, fm \in Frontmatters :
       /\ body' = NoBody
       /\ elapsed' = 0
       /\ relevantLists' = NoLists
       /\ IF polyfillThrows
          THEN /\ Abort("polyfill-throw")
               /\ testContext' = NewContext
               /\ includes' = <<>>
               /\ frontmatter' = NoFrontmatter
          ELSE /\ testContext' = Append(NewContext, <<"polyfill", "">>)
               /\ IF fm.yaml = "invalid"
                  THEN /\ Abort("yaml")
                       /\ includes' = <<>>
                       /\ frontmatter' = NoFrontmatter
                  ELSE /\ frontmatter' = fm
                       /\ includes' = EffectiveIncludes(fm)
                       /\ pc' = "helpers"
                       /\ UNCHANGED exception
  /\ UNCHANGED <<config, counters, report, disk, helpers, longTests,
                 testIdx, outcomes>>

\* A slip: the cache is not looked into.
NeverCached(includeName) == FALSE

\* helpersCache.has(includeName)
Cached(includeName) == includeName \in helpersCache

\* getHelperScript(includeName).runInContext(testContext); helperReads counts
\* the calls of fs.readFileSync for each name.
LoadHelper ==
  /\ pc = "helpers"
  /\ includes # <<>>
  /\ LET includeName == Head(includes) IN
     \E file \in HelperFiles :
       LET st == IF Cached(includeName) THEN "ok" ELSE file IN
       /\ executed' = executed \cup {testIdx}
       /\ helperReads' = IF Cached(includeName) THEN helperReads
                         ELSE [helperReads EXCEPT ![includeName] = @ + 1]
       /\ helpersCache' = IF st \in {"ok", "throws"}
                          THEN helpersCache \cup {includeName}
                          ELSE helpersCache
       /\ IF st = "ok"
          THEN /\ testContext' = Append(testContext, <<"helper", includeName>>)
               /\ includes' = Tail(includes)
               /\ UNCHANGED <<pc, exception>>
          ELSE /\ Abort(IF st = "unreadable" THEN "helper-io"
                        ELSE IF st = "syntax" THEN "helper-syntax"
                        ELSE "helper-throw")
               /\ UNCHANGED <<testContext, includes>>
  /\ UNCHANGED <<config, counters, report, disk, longTests, testIdx, outcomes,
                 body, elapsed, relevantLists, frontmatter>>

\* unexpectedPasses.get(list).add(testRelPath), creating the Set when missing
AddUnexpectedPass(up, list, t) ==
  IF \E n \in 1..Len(up) : up[n].list = list
  THEN [n \in 1..Len(up) |->
          IF up[n].list = list
          THEN [list |-> list, tests |-> up[n].tests \cup {t}]
          ELSE up[n]]
  ELSE Append(up, [list |-> list, tests |-> {t}])

RECURSIVE AddUnexpectedPasses(_, _, _)
\* for (const list of expectedFailureLists) { ... }
AddUnexpectedPasses(up, lists, t) ==
  IF lists = <<>> THEN up
  ELSE AddUnexpectedPasses(AddUnexpectedPass(up, Head(lists), t), Tail(lists), t)

\* A slip: every pass is counted as a pass, the unexpected ones twice.
PassedCountedTwice(lists) ==
  /\ passCount' = passCount + 1
  /\ IF ~Truthy(lists)
     THEN /\ outcomes' = Append(outcomes, Outcome("pass", "none", "Pass"))
          /\ UNCHANGED <<unexpectedPassCount, unexpectedPasses>>
     ELSE /\ unexpectedPassCount' = unexpectedPassCount + 1
          /\ unexpectedPasses' = AddUnexpectedPasses(unexpectedPasses, lists.v, testRelPath)
          /\ outcomes' = Append(outcomes, Outcome("pass", "none", "UnexpectedPass"))
  /\ UNCHANGED <<expectedFailCount, failures, skippedCount>>

\* A slip: an unexpected pass is counted once for every list that names it.
PassedCountedPerList(lists) ==
  /\ IF ~Truthy(lists)
     THEN /\ passCount' = passCount + 1
          /\ outcomes' = Append(outcomes, Outcome("pass", "none", "Pass"))
          /\ UNCHANGED <<unexpectedPassCount, unexpectedPasses>>
     ELSE /\ unexpectedPassCount' = unexpectedPassCount + Len(lists.v)
          /\ unexpectedPasses' = AddUnexpectedPasses(unexpectedPasses, lists.v, testRelPath)
          /\ outcomes' = Append(outcomes, Outcome("pass", "none", "UnexpectedPass"))
          /\ UNCHANGED passCount
  /\ UNCHANGED <<expectedFailCount, failures, skippedCount>>

\* The rest of the try block, after the test script ran to completion.
Passed(lists) ==
  /\ IF ~Truthy(lists)
     THEN /\ passCount' = passCount + 1
          /\ outcomes' = Append(outcomes, Outcome("pass", "none", "Pass"))
          /\ UNCHANGED <<unexpectedPassCount, unexpectedPasses>>
     ELSE /\ unexpectedPassCount' = unexpectedPassCount + 1
          /\ unexpectedPasses' = AddUnexpectedPasses(unexpectedPasses, lists.v, testRelPath)
          /\ outcomes' = Append(outcomes, Outcome("pass", "none", "UnexpectedPass"))
          /\ UNCHANGED passCount
  /\ UNCHANGED <<expectedFailCount, failures, skippedCount>>

\* A slip: a test that failed as expected is noted for removal from its lists.
CaughtNotedForRemoval(lists, result, e) ==
  /\ IF Truthy(lists)
     THEN /\ expectedFailCount' = expectedFailCount + 1
          /\ unexpectedPasses' = AddUnexpectedPasses(unexpectedPasses, lists.v, testRelPath)
          /\ outcomes' = Append(outcomes, Outcome(result, e, "ExpectedFail"))
          /\ UNCHANGED failures
     ELSE /\ failures' = Append(failures, [file |-> testRelPath, error |-> e])
          /\ outcomes' = Append(outcomes, Outcome(result, e, "Fail"))
          /\ UNCHANGED <<expectedFailCount, unexpectedPasses>>
  /\ UNCHANGED <<passCount, unexpectedPassCount, skippedCount>>

\* The catch block: e was thrown by the compilation or the run of the script.
Caught(lists, result, e) ==
  /\ IF Truthy(lists)
     THEN /\ expectedFailCount' = expectedFailCount + 1
          /\ outcomes' = Append(outcomes, Outcome(result, e, "ExpectedFail"))
          /\ UNCHANGED failures
     ELSE /\ failures' = Append(failures, [file |-> testRelPath, error |-> e])
          /\ outcomes' = Append(outcomes, Outcome(result, e, "Fail"))
          /\ UNCHANGED expectedFailCount
  /\ UNCHANGED <<passCount, unexpectedPassCount, unexpectedPasses, skippedCount>>

\* A slip: a test that took exactly the threshold is recorded as slow.
AfterTestSlowAtThreshold(testTimeMsecs) ==
  /\ longTests' = IF testTimeMsecs * NsPerMsec >= SlowTestNs
                  THEN Append(longTests, [file |-> testRelPath,
                                          ns |-> testTimeMsecs * NsPerMsec])
                  ELSE longTests
  /\ testIdx' = testIdx + 1
  /\ pc' = "loop"
  /\ body' = NoBody
  /\ elapsed' = 0
  /\ relevantLists' = NoLists
  /\ frontmatter' = NoFrontmatter

\* The slow-test record and the end of the loop body, where the names declared
\* in it (testCode, the lists, the clock) go out of scope.
AfterTest(testTimeMsecs) ==
  /\ longTests' = IF testTimeMsecs * NsPerMsec > SlowTestNs
                  THEN Append(longTests, [file |-> testRelPath,
                                          ns |-> testTimeMsecs * NsPerMsec])
                  ELSE longTests
  /\ testIdx' = testIdx + 1
  /\ pc' = "loop"
  /\ body' = NoBody
  /\ elapsed' = 0
  /\ relevantLists' = NoLists
  /\ frontmatter' = NoFrontmatter

\* A global binding the test body makes in its context.
WriteGlobal(ctx) ==
  IF <<"global", TestNames[testIdx]>> \in Range(ctx) THEN ctx
  ELSE Append(ctx, <<"global", TestNames[testIdx]>>)

\* A slip: the script is run without the timeout option.
NoDeadline == FALSE

\* The timeout of testScript.runInContext has expired.
DeadlinePassed == elapsed >= timeoutMsecs

\* The body needs the watchdog to end it.
Overruns(b) == b.kind = "loop" \/ b.dur >= timeoutMsecs

\* The expected-failure lookup, the start of the clock, new vm.Script(testCode).
StartBody ==
  /\ pc = "helpers"
  /\ includes = <<>>
  /\ executed' = executed \cup {testIdx}
  /\ \E b \in Bodies :
       LET lists == GetRelevantExpectedFailureLists(testRelPath) IN
       IF b.kind = "syntax"
       THEN /\ Caught(lists, "throw", b.error)
            /\ AfterTest(0)
       ELSE /\ body' = b
            /\ relevantLists' = lists
            /\ elapsed' = 0
            /\ pc' = "body"
            /\ UNCHANGED <<counters, longTests, testIdx, outcomes, frontmatter>>
  /\ UNCHANGED <<config, report, disk, helpers, exception, testContext,
                 includes>>

\* The body runs on while the watchdog lets it.
BodyStep ==
  /\ pc = "body"
  /\ Overruns(body)
  /\ ~DeadlinePassed
  /\ elapsed' = timeoutMsecs
  /\ testContext' = WriteGlobal(testContext)
  /\ UNCHANGED <<config, counters, report, disk, helpers, longTests, pc,
                 testIdx, exception, outcomes, executed, includes, body,
                 relevantLists, frontmatter>>

\* The watchdog ends the run of the script, which throws into the catch block.
BodyTimeout ==
  /\ pc = "body"
  /\ DeadlinePassed
  /\ Caught(relevantLists, "timeout", "ERR_SCRIPT_EXECUTION_TIMEOUT")
  /\ AfterTest(elapsed)
  /\ UNCHANGED <<config, report, disk, helpers, exception, executed,
                 testContext, includes>>

\* The body ends by itself, returning or throwing.
BodyFinish ==
  /\ pc = "body"
  /\ ~Overruns(body)
  /\ testContext' = WriteGlobal(testContext)
  /\ IF body.kind = "pass"
     THEN Passed(relevantLists)
     ELSE Caught(relevantLists, "throw", body.error)
  /\ AfterTest(body.dur)
  /\ UNCHANGED <<config, report, disk, helpers, exception, executed,
                 includes>>

\* ------------------------------------------------------------ the results
\* error.constructor.name throws a TypeError when error is null or undefined.
InspectThrows(failure) == failure.error = "null"

\* A slip: unexpected passes do not count.
HasFailuresOnly == Len(failures) > 0

\* hasFailures after both 'if' blocks of the results section
HasFailures == Len(failures) > 0 \/ Len(unexpectedPasses) > 0

\* return !hasFailures
ReturnValue == IF hasFailures THEN "false" ELSE "true"

\* Print the failures; note whether there are failures or unexpected passes.
Report ==
  /\ pc = "loop"
  /\ testIdx > total
  /\ rk' = 1
  /\ IF \E n \in 1..Len(failures) : InspectThrows(failures[n])
     THEN /\ Abort("report-typeerror")
          /\ hasFailures' = TRUE
     ELSE /\ pc' = "reconcile"
          /\ hasFailures' = HasFailures
          /\ UNCHANGED exception
  /\ UNCHANGED <<config, counters, current, disk, helpers, longTests,
                 testIdx, outcomes, executed, ret>>

\* A slip: the file is rewritten whether or not the option asks for it.
ReconcileUnasked ==
  /\ pc = "reconcile"
  /\ rk <= Len(unexpectedPasses)
  /\ disk' = [disk EXCEPT ![unexpectedPasses[rk].list] =
                UpdateExpectedFailureFile(@, unexpectedPasses[rk].tests)]
  /\ rk' = rk + 1
  /\ UNCHANGED <<config, counters, current, helpers, longTests, testIdx,
                 outcomes, executed, hasFailures, ret, pc, exception>>

\* One turn of the loop over unexpectedPasses: rewrite the file when asked to.
Reconcile ==
  /\ pc = "reconcile"
  /\ rk <= Len(unexpectedPasses)
  /\ LET expectedFailureFile == unexpectedPasses[rk].list
         unexpectedPassesSet == unexpectedPasses[rk].tests
     IN IF updateExpectedFailureFiles
        THEN \E io \in {"ok", "fails"} :
               IF io = "ok"
               THEN /\ disk' = [disk EXCEPT ![expectedFailureFile] =
                                  UpdateExpectedFailureFile(@, unexpectedPassesSet)]
                    /\ rk' = rk + 1
                    /\ UNCHANGED <<pc, exception>>
               ELSE /\ Abort("file-io")
                    /\ UNCHANGED <<disk, rk>>
        ELSE /\ rk' = rk + 1
             /\ UNCHANGED <<disk, pc, exception>>
  /\ UNCHANGED <<config, counters, current, helpers, longTests, testIdx,
                 outcomes, executed, hasFailures, ret>>

\* The slow tests, the counts, and the return.
Summary ==
  /\ pc = "reconcile"
  /\ rk > Len(unexpectedPasses)
  /\ ret' = ReturnValue
  /\ pc' = "done"
  /\ UNCHANGED <<config, counters, current, disk, helpers, longTests,
                 testIdx, exception, outcomes, executed, hasFailures, rk>>

Next ==
  \/ Skip
  \/ SetUp
  \/ LoadHelper
  \/ StartBody
  \/ BodyStep
  \/ BodyTimeout
  \/ BodyFinish
  \/ Report
  \/ Reconcile
  \/ Summary

Spec == Init /\ [][Next]_vars

\* updateExpectedFailureFile(fileName, expectedFailuresInFile)
FileUpdate ==
  /\ pc = "call"
  /\ disk' = [disk EXCEPT ![unexpectedPasses[1].list] =
                UpdateExpectedFailureFile(@, unexpectedPasses[1].tests)]
  /\ pc' = "returned"
  /\ UNCHANGED <<config, counters, current, report, helpers, longTests,
                 testIdx, exception, outcomes, executed>>

FileNext == FileUpdate

FileSpec == FileInit /\ [][FileNext]_vars

\* The entry of runTest262 alone, with any value of the timeoutMsecs option;
\* timeoutMsecs is not assigned before the parse.
TimeoutInit ==
  /\ total = 1
  /\ maxFailures = Undefined
  /\ updateExpectedFailureFiles = FALSE
  /\ timeoutOption \in TimeoutInputs
  /\ timeoutMsecs = 0
  /\ disk = [f \in FileNames |-> <<>>]
  /\ origDisk = disk
  /\ expectedFailureLists = [f \in FileNames |-> {}]
  /\ unexpectedPasses = <<>>
  /\ pc = "entry"
  /\ RunStart

\* timeoutMsecs = parseInt(timeoutMsecs); if (isNaN(timeoutMsecs)) ...
ParseTimeout ==
  /\ pc = "entry"
  /\ timeoutMsecs' = ResolveTimeout(timeoutOption)
  /\ pc' = "parsed"
  /\ UNCHANGED <<total, maxFailures, updateExpectedFailureFiles, origDisk,
                 expectedFailureLists, timeoutOption, counters, current,
                 report, disk, helpers, longTests, testIdx, exception,
                 outcomes, executed>>

TimeoutNext == ParseTimeout

TimeoutSpec == TimeoutInit /\ [][TimeoutNext]_vars

\* ------------------------------------------------ the runner of index.mjs
\* let expectedFailures = new Set(): the lines of all the files together
expectedFailures == UNION {expectedFailureLists[f] : f \in FileNames}

\* The options of the runner of index.mjs: it has no timeout, no ceiling and
\* no rewriting of the files.
OldInit ==
  /\ total \in 1..MaxTests
  /\ maxFailures = Undefined
  /\ updateExpectedFailureFiles = FALSE
  /\ timeoutOption = Undefined
  /\ timeoutMsecs = 0
  /\ disk \in RunDisks
  /\ origDisk = disk
  /\ expectedFailureLists = [f \in FileNames |-> LoadExpectedFailures(disk[f])]
  /\ unexpectedPasses = <<>>
  /\ pc = "loop"
  /\ RunStart

\* vm.runInContext(testCode, testContext) in the try block, the catch block
\* and the slow-test record; a body that does not end is never ended.
OldRunBody ==
  /\ pc = "helpers"
  /\ includes = <<>>
  /\ executed' = executed \cup {testIdx}
  /\ \E b \in Bodies :
       IF b.kind = "loop"
       THEN /\ pc' = "hung"
            /\ body' = b
            /\ testContext' = WriteGlobal(testContext)
            /\ UNCHANGED <<counters, longTests, testIdx, outcomes, elapsed,
                           relevantLists, frontmatter>>
       ELSE /\ testContext' = IF b.kind = "syntax" THEN testContext
                               ELSE WriteGlobal(testContext)
            /\ IF b.kind = "pass"
               THEN /\ passCount' = passCount + 1
                    /\ IF testRelPath \in expectedFailures
                       THEN /\ unexpectedPasses' = Append(unexpectedPasses, testRelPath)
                            /\ outcomes' = Append(outcomes,
                                 Outcome("pass", "none", "UnexpectedPass"))
                       ELSE /\ outcomes' = Append(outcomes,
                                 Outcome("pass", "none", "Pass"))
                            /\ UNCHANGED unexpectedPasses
                    /\ UNCHANGED <<expectedFailCount, failures>>
               ELSE /\ IF testRelPath \in expectedFailures
                       THEN /\ expectedFailCount' = expectedFailCount + 1
                            /\ outcomes' = Append(outcomes,
                                 Outcome("throw", b.error, "ExpectedFail"))
                            /\ UNCHANGED failures
                       ELSE /\ failures' = Append(failures,
                                 [file |-> testRelPath, error |-> b.error])
                            /\ outcomes' = Append(outcomes,
                                 Outcome("throw", b.error, "Fail"))
                            /\ UNCHANGED expectedFailCount
                    /\ UNCHANGED <<passCount, unexpectedPasses>>
            /\ UNCHANGED <<unexpectedPassCount, skippedCount>>
            /\ AfterTest(b.dur)
  /\ UNCHANGED <<config, report, disk, helpers, exception, includes>>

\* Print the results and return failures.length === 0.
OldReport ==
  /\ pc = "loop"
  /\ testIdx > total
  /\ IF \E n \in 1..Len(failures) : InspectThrows(failures[n])
     THEN /\ Abort("report-typeerror")
          /\ UNCHANGED ret
     ELSE /\ ret' = IF Len(failures) = 0 THEN "true" ELSE "false"
          /\ pc' = "done"
          /\ UNCHANGED exception
  /\ UNCHANGED <<config, counters, current, disk, helpers, longTests,
                 testIdx, outcomes, executed, hasFailures, rk>>

\* The set-up of a test is the same code in both runners.
OldNext ==
  \/ SetUp
  \/ LoadHelper
  \/ OldRunBody
  \/ OldReport

OldSpec == OldInit /\ [][OldNext]_vars

\* Fewer configurations, for the properties of whole behaviours.
LiveInit ==
  /\ total \in 1..MaxTests
  /\ maxFailures \in {Undefined, Num(1)}
  /\ updateExpectedFailureFiles \in BOOLEAN
  /\ \E opt \in TimeoutOptions :
       /\ timeoutOption = opt
       /\ timeoutMsecs = ResolveTimeout(opt)
  /\ disk = [f \in FileNames |-> IF f = "f1" THEN TextC ELSE TextB]
  /\ origDisk = disk
  /\ expectedFailureLists = [f \in FileNames |-> LoadExpectedFailures(disk[f])]
  /\ unexpectedPasses = <<>>
  /\ pc = "loop"
  /\ RunStart

\* The run is one sequential call: the step that is enabled is taken.
LiveSpec == LiveInit /\ [][Next]_vars /\ WF_vars(Next)

\* ================================================================ claims
\* Whether some expected-failure list names the n-th test.
Named(n) == \E f \in FileNames : TestRelPath(n) \in expectedFailureLists[f]

OutcomesOf(class) == {n \in 1..Len(outcomes) : outcomes[n].class = class}

\* C1: every executed test is classified by the decision table: a completed
\* test no list names is a Pass, a completed test some list names is an
\* UnexpectedPass, a test that threw or timed out and no list names is a Fail
\* recorded with the file and the error thrown, and one some list names is an
\* ExpectedFail; the failure list holds exactly the Fail records, in order.
C1_DecisionTable ==
  /\ \A n \in 1..Len(outcomes) :
       LET o == outcomes[n] IN
       o.class # "Skipped" =>
         /\ o.result \in {"pass", "throw", "timeout"}
         /\ o.class = (IF o.result = "pass"
                       THEN (IF Named(o.test) THEN "UnexpectedPass" ELSE "Pass")
                       ELSE (IF Named(o.test) THEN "ExpectedFail" ELSE "Fail"))
  /\ failures = [k \in 1..Len(failures) |->
                   [file |-> TestRelPath(SelectSeq(outcomes, LAMBDA o : o.class = "Fail")[k].test),
                    error |-> SelectSeq(outcomes, LAMBDA o : o.class = "Fail")[k].error]]
  /\ Len(failures) = Len(SelectSeq(outcomes, LAMBDA o : o.class = "Fail"))

\* All of an unexpected pass, an expected failure by timeout and a recorded
\* failure have happened in one run.
C1_Witness ==
  /\ \E n \in OutcomesOf("UnexpectedPass") : TRUE
  /\ \E n \in OutcomesOf("ExpectedFail") : outcomes[n].result = "timeout"
  /\ \E n \in OutcomesOf("Fail") : outcomes[n].error = "Test262Error"

\* C2: when the run completes, every selected test has exactly one outcome
\* and the five counts add up to the number of selected tests.
C2_OneOutcomeEach ==
  pc = "done" =>
    /\ \A i \in 1..total : Cardinality({n \in 1..Len(outcomes) : outcomes[n].test = i}) = 1
    /\ Len(outcomes) = total
    /\ passCount = Cardinality(OutcomesOf("Pass"))
    /\ Len(failures) = Cardinality(OutcomesOf("Fail"))
    /\ expectedFailCount = Cardinality(OutcomesOf("ExpectedFail"))
    /\ unexpectedPassCount = Cardinality(OutcomesOf("UnexpectedPass"))
    /\ skippedCount = Cardinality(OutcomesOf("Skipped"))
    /\ passCount + Len(failures) + expectedFailCount + unexpectedPassCount
         + skippedCount = total

\* A completed run of the largest test set with a skipped test and an
\* unexpected pass.
C2_Witness ==
  /\ pc = "done"
  /\ total = MaxTests
  /\ skippedCount > 0
  /\ unexpectedPassCount > 0

\* C3: the value returned is true exactly when no failure and no unexpected
\* pass was recorded.
C3_ReturnValue ==
  pc = "done" =>
    /\ ret \in {"true", "false"}
    /\ (ret = "true") <=> (Len(failures) = 0 /\ unexpectedPassCount = 0)

\* A run that returns true although a test failed as expected.
C3_Witness ==
  /\ pc = "done"
  /\ ret = "true"
  /\ expectedFailCount > 0

\* The number of failures recorded before the n-th entry of the log was made.
FailsBefore(n) == Cardinality({m \in 1..(n - 1) : outcomes[m].class = "Fail"})

\* The tests the loop has taken up and not yet classified.
InProgress == {i \in executed : \A n \in 1..Len(outcomes) : outcomes[n].test # i}

\* With a ceiling of limit failures: a test reached after limit failures were
\* recorded is Skipped and nothing of it was executed.
SkippedPastCeiling(limit) ==
  /\ \A n \in 1..Len(outcomes) :
       FailsBefore(n) >= limit =>
         /\ outcomes[n].class = "Skipped"
         /\ outcomes[n].test \notin executed
  /\ Len(failures) >= limit => InProgress = {}

\* The log of outcomes only grows: what was recorded stays as it was.
OutcomesStand ==
  /\ Len(outcomes') >= Len(outcomes)
  /\ SubSeq(outcomes', 1, Len(outcomes)) = outcomes
  /\ Len(failures') >= Len(failures)
  /\ SubSeq(failures', 1, Len(failures)) = failures

\* C4 as stated, for every number given as the ceiling, 0 included: once
\* that many failures are recorded, every later test is Skipped and not
\* executed.
C4_AnyCeiling ==
  maxFailures.t = "number" => SkippedPastCeiling(maxFailures.v)

\* C4, amended: with a ceiling N >= 1, once N failures are recorded every
\* later test is Skipped, no context is created for it, no helper is loaded
\* or run and its body is not run; earlier outcomes stay as recorded.
C4_CeilingSkips ==
  /\ [](maxFailures.t = "number" /\ maxFailures.v >= 1
          => SkippedPastCeiling(maxFailures.v))
  /\ [][OutcomesStand]_vars

\* A completed run in which the ceiling was reached and a test was skipped.
C4_Witness ==
  /\ pc = "done"
  /\ maxFailures.t = "number"
  /\ Len(failures) = maxFailures.v
  /\ skippedCount > 0
  /\ executed # {}

\* The tests recorded as unexpected passes against file f.
UnexpectedPassesOf(f) ==
  UNION {unexpectedPasses[n].tests :
           n \in {m \in 1..Len(unexpectedPasses) : unexpectedPasses[m].list = f}}

\* The tests that passed and that file f names.
PassedNamedBy(f) ==
  {TestRelPath(outcomes[n].test) :
     n \in {m \in 1..Len(outcomes) :
              /\ outcomes[m].result = "pass"
              /\ TestRelPath(outcomes[m].test) \in expectedFailureLists[f]}}

\* C5: a passing test is in the unexpected-pass set of every list that names
\* it and of no other list; each list has at most one such set.
C5_EveryNamingList ==
  /\ \A f \in FileNames : UnexpectedPassesOf(f) = PassedNamedBy(f)
  /\ \A m, n \in 1..Len(unexpectedPasses) :
       unexpectedPasses[m].list = unexpectedPasses[n].list => m = n

\* A test named by both files has passed, and another test was recorded
\* against one file only.
C5_Witness ==
  /\ \E t \in UnexpectedPassesOf("f1") : t \in UnexpectedPassesOf("f2")
  /\ UnexpectedPassesOf("f1") # UnexpectedPassesOf("f2")

\* ------------------------------------------------- the file, byte by byte
Whitespace == {SP, CR, LF}

RECURSIVE TrimStart(_)
TrimStart(l) ==
  IF l # <<>> /\ Head(l) \in Whitespace THEN TrimStart(Tail(l)) ELSE l

RECURSIVE TrimEnd(_)
TrimEnd(l) ==
  IF l # <<>> /\ l[Len(l)] \in Whitespace
  THEN TrimEnd(SubSeq(l, 1, Len(l) - 1))
  ELSE l

\* The identifier a line holds: the line without the whitespace around it.
Trim(l) == TrimEnd(TrimStart(l))

RECURSIVE RawLinesFrom(_, _, _)
\* The lines of a text as they stand in the file, each with the terminator
\* that ends it: "\n", "\r\n", or nothing at the end of the file.
RawLinesFrom(text, cur, acc) ==
  IF text = <<>> THEN Append(acc, [line |-> cur, end |-> <<>>])
  ELSE IF Head(text) = LF
       THEN RawLinesFrom(Tail(text), <<>>,
              Append(acc, IF cur # <<>> /\ cur[Len(cur)] = CR
                          THEN [line |-> SubSeq(cur, 1, Len(cur) - 1), end |-> <<CR, LF>>]
                          ELSE [line |-> cur, end |-> <<LF>>]))
       ELSE RawLinesFrom(Tail(text), Append(cur, Head(text)), acc)

RawLines(text) == RawLinesFrom(text, <<>>, <<>>)

RECURSIVE Bytes(_)
Bytes(raw) ==
  IF raw = <<>> THEN <<>>
  ELSE raw[1].line \o raw[1].end \o Bytes(Tail(raw))

\* The copy of text without the lines whose identifier is in names: every
\* other line as it was, with the terminator it had.
FilteredCopy(text, names) ==
  Bytes(SelectSeq(RawLines(text), LAMBDA r : Trim(r.line) \notin names))

\* C6: updateExpectedFailureFile writes a filtered copy of the file: exactly
\* the lines whose trimmed identifier is in the set are dropped, every other
\* line is kept in order, its content and its terminator byte for byte.
C6_FilteredCopy ==
  pc = "returned" =>
    disk["f1"] = FilteredCopy(origDisk["f1"], unexpectedPasses[1].tests)

\* The named lines are gone and the other lines are the same lines in the
\* same order, whatever became of the terminators.
SameLinesWithout(after, before, names) ==
  SplitLines(after) = SelectSeq(SplitLines(before), LAMBDA l : l \notin names)

TimedOutRecorded(i) ==
  \E n \in 1..Len(outcomes) :
    /\ outcomes[n].test = i
    /\ outcomes[n].result = "timeout"
    /\ outcomes[n].error = "ERR_SCRIPT_EXECUTION_TIMEOUT"
    /\ outcomes[n].class \in {"Fail", "ExpectedFail"}

\* C8: a test body that does not end within the timeout is ended by it and
\* recorded as a failure by timeout, the loop goes on to the next test, and
\* every run comes to its end: no test body holds it up.
C8_TimeoutEndsTest ==
  /\ \A i \in 1..MaxTests :
       (pc = "body" /\ testIdx = i /\ Overruns(body))
         ~> (TimedOutRecorded(i) /\ pc = "loop" /\ testIdx = i + 1)
  /\ \A i \in 1..MaxTests : (pc = "body" /\ testIdx = i) ~> (testIdx = i + 1)
  /\ <>(pc \in {"done", "aborted"})

\* A run reached its summary after a looping body was ended by the timeout
\* and a later test was run.
C8_Witness ==
  /\ pc = "done"
  /\ \E n \in 1..Len(outcomes) :
       /\ outcomes[n].result = "timeout"
       /\ n < Len(outcomes)
       /\ outcomes[Len(outcomes)].result = "pass"

\* C9: the context a test runs in holds nothing an earlier test bound: when
\* the helpers are loaded it holds no global of any test, and while the body
\* runs it holds only the globals of that body.
C9_FreshContext ==
  pc \in {"helpers", "body"} =>
    \A k \in 1..Len(testContext) :
      testContext[k][1] = "global" =>
        /\ pc = "body"
        /\ testContext[k][2] = TestNames[testIdx]

\* A third body runs after one test was ended by the timeout and another
\* ended by throwing.
C9_Witness ==
  /\ pc = "body"
  /\ testContext[Len(testContext)][1] = "global"
  /\ \E n \in 1..Len(outcomes) : outcomes[n].result = "timeout"
  /\ \E n \in 1..Len(outcomes) : outcomes[n].result = "throw"

\* C10: of the errors raised while one test is executed outside its body,
\* only the failure to read a helper file escapes from the run: a helper that
\* does not compile, a helper or the polyfill that throws in the new context
\* are classified and the run goes on.
C10_OnlyHelperReadEscapes ==
  exception \in {"helper-io", "helper-syntax", "helper-throw", "polyfill-throw"}
    => exception = "helper-io"

\* C11: a test whose front matter is missing or cannot be parsed is taken to
\* have empty metadata: its set-up never ends the run with the parser's error.
C11_HeaderTolerated == ~(pc = "aborted" /\ exception = "yaml")

\* The run ended by the failure to read a helper file, while the test
\* testIdx was being set up.
HelperReadAborted ==
  /\ pc = "aborted"
  /\ ret = "none"
  /\ disk = origDisk
  /\ \A i \in executed : i <= testIdx
  /\ Len(outcomes) = testIdx - 1

\* C12: when a helper file cannot be read the run ends there: no later test
\* is executed, no value is returned, no expected-failure file is rewritten,
\* and no step follows the abort.
C12_HelperReadAborts ==
  /\ [](exception = "helper-io" => HelperReadAborted)
  /\ [][pc # "aborted"]_vars

\* A helper could not be read after an unexpected pass was recorded, with the
\* rewriting of the files asked for and tests still to run.
C12_Witness ==
  /\ exception = "helper-io"
  /\ pc = "aborted"
  /\ testIdx < total
  /\ updateExpectedFailureFiles
  /\ Len(unexpectedPasses) > 0

\* C13: rewriting a file without an empty set of tests leaves it as it was,
\* byte for byte, whatever it holds.
C13_EmptySetIdentity ==
  pc = "returned" /\ unexpectedPasses[1].tests = {} =>
    disk["f1"] = origDisk["f1"]

\* C14: the set loaded from the rewritten file is the set loaded from the
\* file before, less the tests it was rewritten without.
C14_RoundTrip ==
  pc = "returned" =>
    LoadExpectedFailures(disk["f1"])
      = expectedFailureLists["f1"] \ unexpectedPasses[1].tests

\* A string that is a decimal numeral and nothing else.
DecimalNumeral(s) == s # <<>> /\ \A k \in 1..Len(s) : IsDigit(s[k], 10)

RECURSIVE DecimalValue(_)
\* The number a decimal numeral denotes, from its last digit down.
DecimalValue(s) ==
  IF s = <<>> THEN 0
  ELSE 10 * DecimalValue(SubSeq(s, 1, Len(s) - 1)) + DigitValue(s[Len(s)])

\* A string that does not start with a number: after the white space and
\* the sign comes no digit.
NoLeadingNumber(s) ==
  LET t == SkipWhiteSpace(s)
      u == IF t # <<>> /\ Head(t) \in {"-", "+"} THEN Tail(t) ELSE t
  IN u = <<>> \/ ~IsDigit(Head(u), 10)

\* C15: the timeout in force is the number the option gives, as a number or
\* as a numeral in a string; it is 2000 when the option is absent or is a
\* string that holds no number.
C15_EffectiveTimeout ==
  pc = "parsed" =>
    /\ timeoutOption.t = "number" => timeoutMsecs = timeoutOption.v
    /\ (timeoutOption.t = "string" /\ DecimalNumeral(timeoutOption.v))
         => timeoutMsecs = DecimalValue(timeoutOption.v)
    /\ (timeoutOption.t = "undefined"
          \/ (timeoutOption.t = "string" /\ NoLeadingNumber(timeoutOption.v)))
         => timeoutMsecs = DefaultTimeoutMsecs

\* The option was the string "12" and the timeout is 12.
C15_Witness ==
  /\ pc = "parsed"
  /\ timeoutOption = Str(<<"1", "2">>)
  /\ timeoutMsecs = 12

RECURSIVE IsSubsequence(_, _)
\* The sequence a is b with some of its elements left out.
IsSubsequence(a, b) ==
  IF a = <<>> THEN TRUE
  ELSE IF b = <<>> THEN FALSE
  ELSE IF Head(a) = Head(b) THEN IsSubsequence(Tail(a), Tail(b))
  ELSE IsSubsequence(a, Tail(b))

\* How often the line l stands among the lines.
LineCount(l, lines) == Cardinality({k \in 1..Len(lines) : lines[k] = l})

\* The names of the tests that ran to completion.
PassedTests ==
  {TestRelPath(outcomes[n].test) :
     n \in {m \in 1..Len(outcomes) : outcomes[m].result = "pass"}}

RewriteAskedFor ==
  \A f \in FileNames :
    disk'[f] # disk[f] => updateExpectedFailureFiles /\ UnexpectedPassesOf(f) # {}

\* C17: a file is rewritten only when updateExpectedFailureFiles is set and
\* the file has a recorded unexpected pass; without the option, and for a
\* file without unexpected pass, the file stays as the run found it.
C17_RewrittenOnlyWhenAsked ==
  /\ [][RewriteAskedFor]_vars
  /\ [](\A f \in FileNames :
          (~updateExpectedFailureFiles \/ UnexpectedPassesOf(f) = {})
            => disk[f] = origDisk[f])

\* A run rewrote the first file and left the second, which names a test that
\* failed as expected and none that passed.
C17_Witness ==
  /\ pc = "done"
  /\ updateExpectedFailureFiles
  /\ disk["f1"] # origDisk["f1"]
  /\ disk["f2"] = origDisk["f2"]
  /\ UnexpectedPassesOf("f2") = {}
  /\ \E n \in OutcomesOf("ExpectedFail") :
       TestRelPath(outcomes[n].test) \in expectedFailureLists["f2"]

\* C18: the report of the results never raises: whatever values the test
\* bodies threw, the run does not end with an error of the report.
C18_ReportNeverRaises == ~(pc = "aborted" /\ exception = "report-typeerror")

\* C19: a failure to write an expected-failure file does not end the run: the
\* summary and the return value still follow.
C19_RewriteFailureRecoverable == ~(pc = "aborted" /\ exception = "file-io")

\* C20: the runner of index.mjs returns true exactly when every test went as
\* expected: false when a test failed that no file lists, and false when a
\* test passed that a file lists.
C20_TrueIffAsExpected ==
  pc = "done" =>
    ((ret = "true") <=> (OutcomesOf("Fail") = {} /\ OutcomesOf("UnexpectedPass") = {}))

\* The names of the helpers run in a context, in the order they were run.
HelpersRun(ctx) ==
  LET h == SelectSeq(ctx, LAMBDA e : e[1] = "helper")
  IN [k \in 1..Len(h) |-> h[k][2]]

\* The helpers a test is to get: assert.js and sta.js unless it is raw, then
\* the includes of its front matter as they are written.
HelpersDue ==
  (IF "raw" \in frontmatter.flags THEN <<>> ELSE <<"assert.js", "sta.js">>)
    \o frontmatter.includes

\* C21: what enters the context of a test enters it in this order: the
\* polyfill first, then the helpers due, in their order, then the body, which
\* runs only when all of them have run.
C21_InjectionOrder ==
  pc \in {"helpers", "body"} =>
    /\ Len(testContext) >= 1
    /\ testContext[1] = <<"polyfill", "">>
    /\ HelpersRun(testContext) \o includes = HelpersDue
    /\ \A k \in 2..Len(testContext) :
         IF k <= 1 + Len(HelpersRun(testContext))
         THEN testContext[k][1] = "helper"
         ELSE /\ testContext[k][1] = "global"
              /\ k = Len(testContext)
              /\ pc = "body"
              /\ includes = <<>>

\* The body of a test that is not raw and includes two helpers has run after
\* the polyfill and the four helpers.
C21_Witness ==
  /\ pc = "body"
  /\ "raw" \notin frontmatter.flags
  /\ HelpersRun(testContext) = <<"assert.js", "sta.js", "h.js", "g.js">>
  /\ Len(testContext) = 6
  /\ testContext[6][1] = "global"

\* A step takes nothing out of the cache and does not read again a file
\* whose script is in the cache.
CacheKept ==
  /\ helpersCache \subseteq helpersCache'
  /\ \A n \in helpersCache : helperReads'[n] = helperReads[n]

\* C22: over a run each helper file is read and compiled at most once, when
\* it is first asked for; the script in the cache is what every later test
\* gets, and an entry of the cache is never removed or replaced.
C22_HelperCompiledOnce ==
  /\ [](\A n \in HelperNames :
          /\ helperReads[n] <= 1
          /\ n \in helpersCache => helperReads[n] = 1)
  /\ [][CacheKept]_vars

\* A later test has run its four helpers, each of them read once in the run.
C22_Witness ==
  /\ testIdx >= 2
  /\ pc = "body"
  /\ HelpersRun(testContext) = <<"assert.js", "sta.js", "h.js", "g.js">>
  /\ \A n \in HelperNames : helperReads[n] = 1
  /\ Cardinality(executed) >= 2

\* Some file has an entry that names the n-th test once the white space
\* around it is taken off.
NamedByTrimmedEntry(n) ==
  \E f \in FileNames : \E l \in Range(SplitLines(origDisk[f])) :
    /\ l # <<>>
    /\ l[1] # HASH
    /\ Trim(l) = TestRelPath(n)

\* C23: an entry written with white space before or after it still names its
\* test: the test is classified as an expected failure or as an unexpected
\* pass.
C23_TrimmedEntryNames ==
  \A n \in 1..Len(outcomes) :
    (outcomes[n].class # "Skipped" /\ NamedByTrimmedEntry(outcomes[n].test))
      => outcomes[n].class \in {"ExpectedFail", "UnexpectedPass"}

\* The time the test in hand has taken when its outcome is recorded, in
\* milliseconds: that of its body, or what had passed when it was ended.
MeasuredMsecs ==
  IF pc = "body" THEN (IF Overruns(body) THEN elapsed ELSE body.dur) ELSE 0

\* A step that records the outcome of an executed test adds the test to the
\* slow tests exactly when it took more than 100 ms; no other step changes
\* the slow tests.
SlowRecordedExactly ==
  IF Len(outcomes') = Len(outcomes) + 1 /\ outcomes'[Len(outcomes')].class # "Skipped"
  THEN longTests' =
         (IF MeasuredMsecs > 100
          THEN Append(longTests, [file |-> TestRelPath(testIdx),
                                  ns |-> MeasuredMsecs * 1000000])
          ELSE longTests)
  ELSE longTests' = longTests

\* Classification, counts and return value are what they are without regard
\* to the slow tests.
SlowTestsInert ==
  /\ \A n \in 1..Len(outcomes) :
       LET o == outcomes[n] IN
       o.class # "Skipped" =>
         o.class = (IF o.result = "pass"
                    THEN (IF Named(o.test) THEN "UnexpectedPass" ELSE "Pass")
                    ELSE (IF Named(o.test) THEN "ExpectedFail" ELSE "Fail"))
  /\ passCount + Len(failures) + expectedFailCount + unexpectedPassCount
       + skippedCount = Len(outcomes)
  /\ pc = "done" =>
       ((ret = "true") <=> (OutcomesOf("Fail") = {} /\ OutcomesOf("UnexpectedPass") = {}))

\* C24: a test is recorded as slow exactly when it took more than 100 ms,
\* and the record changes no classification, no count and not the value
\* returned.
C24_SlowTestsInformational ==
  /\ [][SlowRecordedExactly]_vars
  /\ []SlowTestsInert

\* A run of several tests has returned true with one slow test, which is
\* counted as a pass, and a test that was not slow.
C24_Witness ==
  /\ pc = "done"
  /\ ret = "true"
  /\ Len(outcomes) >= 2
  /\ Len(longTests) = 1
  /\ \E n \in 1..Len(outcomes) :
       /\ outcomes[n].class = "Pass"
       /\ longTests[1].file = TestRelPath(outcomes[n].test)

\* The place of a test file in the order of the loop.
TestIndex(file) == CHOOSE i \in 1..Len(TestNames) : TestRelPath(i) = file

\* C25: with a ceiling N >= 1 there are never more than N recorded failures,
\* and the failures are listed in the order the tests were taken.
C25_CeilingBoundsFailures ==
  (maxFailures.t = "number" /\ maxFailures.v >= 1) =>
    /\ Len(failures) <= maxFailures.v
    /\ \A j, k \in 1..Len(failures) :
         j < k => TestIndex(failures[j].file) < TestIndex(failures[k].file)

\* A run with a ceiling of two has recorded its second failure with the last
\* of its tests.
C25_Witness ==
  /\ pc = "done"
  /\ maxFailures = Num(2)
  /\ Len(failures) = 2
  /\ total = MaxTests

\* C26: with a ceiling of 0 no test is ever skipped, and a run that reaches
\* its results has executed every selected test.
C26_ZeroCeilingSkipsNothing ==
  maxFailures = Num(0) =>
    /\ skippedCount = 0
    /\ OutcomesOf("Skipped") = {}
    /\ pc \in {"reconcile", "done"} => executed = 1..total

\* A run with a ceiling of 0 has executed all its tests, and failures were
\* recorded before the last of them.
C26_Witness ==
  /\ pc = "done"
  /\ maxFailures = Num(0)
  /\ total = MaxTests
  /\ Len(failures) >= 2
  /\ executed = 1..total

\* The pairs of a file and a test recorded as an unexpected pass against it.
UnexpectedPassPairs ==
  {<<f, t>> \in FileNames \X UNION {expectedFailureLists[g] : g \in FileNames} :
     t \in UnexpectedPassesOf(f)}

\* A step counts one unexpected pass when it records one, whatever the number
\* of files naming the test, and none otherwise.
CountsOnePerTest ==
  unexpectedPassCount' = unexpectedPassCount +
    (IF /\ Len(outcomes') = Len(outcomes) + 1
        /\ outcomes'[Len(outcomes')].class = "UnexpectedPass"
     THEN 1 ELSE 0)

\* C27: unexpectedPassCount counts tests: a passing test named by one file or
\* by several adds exactly 1, and the count is the number of tests in the
\* union of the sets kept for the files.
C27_CountsTests ==
  /\ [](unexpectedPassCount
          = Cardinality(UNION {UnexpectedPassesOf(f) : f \in FileNames}))
  /\ [][CountsOnePerTest]_vars

\* Two tests passed unexpectedly, one of them named by both files.
C27_Witness ==
  /\ unexpectedPassCount = 2
  /\ Cardinality(UnexpectedPassPairs) = 3

\* A comment line or a blank line.
NoEntry(l) == l = <<>> \/ l[1] = HASH

\* C28: a test recorded as an unexpected pass against a file is in the set
\* loaded from that file, and the files keep all their comment lines and
\* blank lines through the run.
C28_RemovalsAreMembers ==
  /\ \A n \in 1..Len(unexpectedPasses) :
       unexpectedPasses[n].tests \subseteq expectedFailureLists[unexpectedPasses[n].list]
  /\ \A f \in FileNames :
       \/ disk[f] = origDisk[f]
       \/ \A l \in Range(SplitLines(origDisk[f])) :
            NoEntry(l) =>
              LineCount(l, SplitLines(disk[f])) = LineCount(l, SplitLines(origDisk[f]))

\* The file with a comment line and a blank line was rewritten.
C28_Witness ==
  /\ pc = "done"
  /\ updateExpectedFailureFiles
  /\ origDisk["f1"] = TextA
  /\ disk["f1"] # origDisk["f1"]

\* C29: a test is skipped only after as many failures as the ceiling were
\* recorded: expected failures and unexpected passes, however many, make no
\* later test be skipped.
C29_OnlyFailsCount ==
  \A n \in OutcomesOf("Skipped") :
    /\ maxFailures.t = "number"
    /\ maxFailures.v >= 1
    /\ FailsBefore(n) >= maxFailures.v

\* With a ceiling of one, every test of a run was executed, all of them
\* expected failures and unexpected passes.
C29_Witness ==
  /\ pc = "done"
  /\ maxFailures = Num(1)
  /\ total = MaxTests
  /\ expectedFailCount >= 1
  /\ unexpectedPassCount >= 1
  /\ expectedFailCount + unexpectedPassCount = total
  /\ skippedCount = 0

====
